---- MODULE Spec2Model ----
(***************************************************************************)
(* Model of the /convert handler of Youtube-Converter-Go (main.go).        *)
(*                                                                         *)
(* A Go string is a sequence of text pieces (Seq(STRING)); the empty       *)
(* string is <<>>.  Text the handler inspects character by character       *)
(* (Content-Type, filenames, escaped values) is spelled one character per  *)
(* piece; fixed format text of fmt.Sprintf is one piece.                   *)
(***************************************************************************)
EXTENDS Integers, Sequences, FiniteSets, TLC

\* ------------------------------------------------------------------ bounds
\* number of requests handled concurrently in SpecConc
NumReqs == 2
\* largest Unix time time.Now() may return; the clock reads MaxTime-1 or MaxTime
MaxTime == 10

\* ------------------------------------------------------- program constants
StatusOK == 200
StatusBadRequest == 400
StatusInternalServerError == 500
StatusBadGateway == 502

veviozAPIURL == <<"https://api.vevioz.com/api/button">>

Reqs == 1 .. NumReqs
\* the request of the single-request specification Spec
FirstReq == 1
Times == (MaxTime - 1) .. MaxTime

\* --------------------------------------------------------- string helpers
Digits == <<"0", "1", "2", "3", "4", "5", "6", "7", "8", "9">>

\* fmt's %d of a non-negative integer
RECURSIVE Itoa(_)
Itoa(n) == IF n < 10 THEN <<Digits[n + 1]>>
           ELSE Itoa(n \div 10) \o <<Digits[(n % 10) + 1]>>

\* strings.Contains(s, substr)
Contains(s, substr) ==
    \E i \in 1 .. (Len(s) + 1) :
        /\ i + Len(substr) - 1 <= Len(s)
        /\ SubSeq(s, i, i + Len(substr) - 1) = substr

\* url.PathEscape of one character: unreserved characters stay, the space
\* and the slash are percent-escaped
PathEscapeChar(c) ==
    CASE c = " " -> <<"%", "2", "0">>
      [] c = "/" -> <<"%", "2", "F">>
      [] c = "?" -> <<"%", "3", "F">>
      [] OTHER   -> <<c>>

RECURSIVE PathEscape(_)
PathEscape(s) == IF s = <<>> THEN <<>>
                 ELSE PathEscapeChar(Head(s)) \o PathEscape(Tail(s))

\* url.Values.Encode of one character of the value (query escaping)
QueryEscapeChar(c) ==
    CASE c = " " -> <<"+">>
      [] c = "/" -> <<"%", "2", "F">>
      [] c = ":" -> <<"%", "3", "A">>
      [] c = "?" -> <<"%", "3", "F">>
      [] OTHER   -> <<c>>

RECURSIVE QueryEscape(_)
QueryEscape(s) == IF s = <<>> THEN <<>>
                  ELSE QueryEscapeChar(Head(s)) \o QueryEscape(Tail(s))

\* ------------------------------------------------------------ text values
Mp3 == <<"m", "p", "3">>
Mp4 == <<"m", "p", "4">>
Merged == <<"m", "e", "r", "g", "e", "d">>
Webm == <<"w", "e", "b", "m">>

VideoWebm == <<"v", "i", "d", "e", "o", "/", "w", "e", "b", "m">>
VideoMp4 == <<"v", "i", "d", "e", "o", "/", "m", "p", "4">>
AudioMpeg == <<"a", "u", "d", "i", "o", "/", "m", "p", "e", "g">>
OctetStream == <<"application/octet-stream">>
ApplicationJSON == <<"application/json">>

\* ------------------------------------------------------ request parameters
\* one query parameter of the inbound request: absent, or present with a value
Absent == [present |-> FALSE, val |-> <<>>]
Param(v) == [present |-> TRUE, val |-> v]

\* url.Values.Get: the value, "" when the parameter is absent
Get(p) == IF p.present THEN p.val ELSE <<>>

SomeVideoURL == <<"y", ":", "/", "v">>

UrlParams == {Absent, Param(<<>>), Param(SomeVideoURL)}
TypeParams == {Absent, Param(<<>>), Param(Mp3), Param(Mp4), Param(Merged), Param(Webm)}
Queries == [url : UrlParams, type : TypeParams]
NoQuery == [url |-> Absent, type |-> Absent]

\* ------------------------------------------------------ upstream answers
\* the JSON body of the conversion service decoded into VeviozAPIResponse
VeviozAPIResponse(status, u, title, error) ==
    [Status |-> status, URL |-> u, Title |-> title,
     Ftype |-> <<>>, Fsize |-> <<"9", "9">>, Error |-> error]
ZeroVeviozAPIResponse ==
    [Status |-> <<>>, URL |-> <<>>, Title |-> <<>>,
     Ftype |-> <<>>, Fsize |-> <<>>, Error |-> <<>>]

DownloadLocation == <<"https://x/file">>
Titles == {<<>>, <<"S", "o">>, <<"a", " ", "b">>}
ErrorTexts == {<<>>, <<"not found">>}
UpstreamBodies ==
    {VeviozAPIResponse(s, u, t, e) :
        s \in {<<"ok">>, <<"error">>}, u \in {<<>>, DownloadLocation},
        t \in Titles, e \in ErrorTexts}

\* what client.Get returned: an error (the err text), or a response with a
\* status code, headers and a body (decodable into `body`, or not)
NoAnswer ==
    [kind |-> "none", err |-> <<>>, status |-> 0, decodable |-> FALSE,
     body |-> ZeroVeviozAPIResponse, contentType |-> <<>>, contentLength |-> <<>>]
GetError(e) == [NoAnswer EXCEPT !.kind = "error", !.err = e]
\* the errors client.Get returns before the client's timeout
GetErrors == {GetError(<<"connection refused">>)}
\* the error client.Get returns when the client's timeout expires
TimeoutError == GetError(<<"Client.Timeout exceeded">>)

UpstreamStatuses == {200, 201, 404}
UpAnswers ==
    GetErrors
    \cup {[NoAnswer EXCEPT !.kind = "response", !.status = s] : s \in UpstreamStatuses}
    \cup {[NoAnswer EXCEPT !.kind = "response", !.status = s,
                           !.decodable = TRUE, !.body = b] :
            s \in UpstreamStatuses, b \in UpstreamBodies}

\* header values of the download response as Header.Get reports them:
\* <<>> when the header is absent
ContentTypes == {<<>>, VideoWebm, VideoWebm \o <<";", "q">>, VideoMp4, AudioMpeg}
ContentLengths == {<<>>, <<"1", "2", "3", "4">>}
DownloadStatuses == {200, 204, 404}
ProbeAnswers ==
    GetErrors
    \cup {[NoAnswer EXCEPT !.kind = "response", !.status = s,
                           !.contentType = ct, !.contentLength = cl] :
            s \in DownloadStatuses, ct \in ContentTypes, cl \in ContentLengths}

\* ------------------------------------------------------------ the response
HeaderNames == {"Content-Disposition", "Content-Type", "Content-Length",
                "X-Content-Type-Options"}
NoHeaders == [h \in HeaderNames |-> <<>>]

\* ConversionResponse; download_url is omitted from the JSON when empty
ConversionResponse(name, size, mime, u) ==
    [Filename |-> name, Size |-> size, MimeType |-> mime,
     DownloadURL |-> IF u = <<>> THEN Absent ELSE Param(u)]
NoObject == [Filename |-> <<>>, Size |-> <<>>, MimeType |-> <<>>, DownloadURL |-> Absent]

TextBody(msg) == [kind |-> "text", msg |-> msg, obj |-> NoObject]
JSONBody(o) == [kind |-> "json", msg |-> <<>>, obj |-> o]

\* http.ResponseWriter: the WriteHeader calls, the header map, the body writes
NewResponseWriter == [statuses |-> <<>>, header |-> NoHeaders, body |-> <<>>]

SetHeader(w, name, v) == [w EXCEPT !.header[name] = v]
WriteHeader(w, code) == [w EXCEPT !.statuses = Append(@, code)]
Write(w, b) == [w EXCEPT !.body = Append(@, b)]

\* http.Error(w, msg, code)
HttpError(w, msg, code) ==
    Write(WriteHeader(
            SetHeader(SetHeader(w, "Content-Type", <<"text/plain; charset=utf-8">>),
                      "X-Content-Type-Options", <<"nosniff">>),
            code),
          TextBody(msg))

\* the outcome of one stage of the handler
NoErr == [failed |-> FALSE, code |-> 0, msg |-> <<>>]
Fail(code, msg) == [failed |-> TRUE, code |-> code, msg |-> msg]

\* ------------------------------------------------------------------ state
VARIABLES
    pc,        \* [Reqs -> the handler's position for that request]
    query,     \* [Reqs -> the request's query parameters]
    upAns,     \* [Reqs -> what client.Get of the API URL returned]
    probeAns,  \* [Reqs -> what client.Get of the download URL returned]
    calls,     \* [Reqs -> the outbound GETs issued so far, in order]
    resp       \* [Reqs -> the http.ResponseWriter of the request]

vars == <<pc, query, upAns, probeAns, calls, resp>>

\* ------------------------------------------------- the handler's stages
\* variant: a client built without Timeout never gives up on a pending GET
clientWithoutTimeout == FALSE

\* main.go 83: client := &http.Client{Timeout: 30 * time.Second}
clientHasTimeout == TRUE

\* variant: any non-empty type is accepted
isValidConversionTypeAcceptsAny(t) == t # <<>>

isValidConversionType(t) == t = Mp3 \/ t = Mp4 \/ t = Merged

\* main.go 56-66
validateParams(videoURL, conversionType) ==
    IF videoURL = <<>> \/ conversionType = <<>>
    THEN Fail(StatusBadRequest, <<"Missing 'url' or 'type' parameter">>)
    ELSE IF ~isValidConversionType(conversionType)
    THEN Fail(StatusBadRequest,
              <<"Invalid 'type' parameter. Must be 'mp3', 'mp4', or 'merged'.">>)
    ELSE NoErr

\* main.go 69-78: base/<type>?url=<escaped source url>.  url.Parse of the
\* fixed base followed by a validated type cannot fail.
apiRequestURL(conversionType, videoURL) ==
    veviozAPIURL \o <<"/">> \o conversionType
                 \o <<"?", "u", "r", "l", "=">> \o QueryEscape(videoURL)

\* main.go 85-89
checkAPIErr(ans) ==
    IF ans.kind = "error"
    THEN Fail(StatusBadGateway,
              <<"Failed to connect to conversion service: ">> \o ans.err)
    ELSE NoErr

\* main.go 92-97
checkAPIStatus(ans) ==
    IF ans.status # StatusOK
    THEN Fail(StatusBadGateway,
              <<"Conversion service returned an error: Status ">> \o Itoa(ans.status))
    ELSE NoErr

\* main.go 99-104; the body is undecodable when it is not JSON of the expected
\* shape, or when the client's timeout cuts the read of the body short
decodeAPI(ans) ==
    IF ~ans.decodable
    THEN Fail(StatusInternalServerError,
              <<"Failed to parse conversion service response: ", "decode error">>)
    ELSE NoErr

\* variant: the empty url and the empty error text are not looked at
checkAPILogicalStatusOnly(veviozResponse) ==
    IF veviozResponse.Status # <<"ok">>
    THEN Fail(StatusBadGateway, <<"Conversion failed: ">> \o veviozResponse.Error)
    ELSE NoErr

\* main.go 106-114
checkAPILogical(veviozResponse) ==
    IF veviozResponse.Status # <<"ok">> \/ veviozResponse.URL = <<>>
    THEN LET errMsg == IF veviozResponse.Error = <<>>
                       THEN <<"Unknown error from conversion service">>
                       ELSE veviozResponse.Error
         IN  Fail(StatusBadGateway, <<"Conversion failed: ">> \o errMsg)
    ELSE NoErr

\* main.go 120-124
checkDownloadErr(ans) ==
    IF ans.kind = "error"
    THEN Fail(StatusInternalServerError,
              <<"Failed to download converted file: ">> \o ans.err)
    ELSE NoErr

\* variant: a bad download status is reported as 502
checkDownloadStatusBadGateway(ans) ==
    IF ans.status # StatusOK
    THEN Fail(StatusBadGateway,
              <<"Failed to download converted file: Status ">> \o Itoa(ans.status))
    ELSE NoErr

\* main.go 127-132
checkDownloadStatus(ans) ==
    IF ans.status # StatusOK
    THEN Fail(StatusInternalServerError,
              <<"Failed to download converted file: Status ">> \o Itoa(ans.status))
    ELSE NoErr

\* variant: the title is ignored
filenameBaseAlwaysTimestamp(title, now) == <<"converted_video_">> \o Itoa(now)

\* main.go 135-139
filenameBase(title, now) ==
    IF title = <<>> THEN <<"converted_video_">> \o Itoa(now) ELSE title

\* variant: merged never looks at the Content-Type
extensionMergedAlwaysMp4(conversionType, contentType) ==
    CASE conversionType = Mp3 -> <<".mp3">>
      [] conversionType = Mp4 -> <<".mp4">>
      [] conversionType = Merged -> <<".mp4">>
      [] OTHER -> <<>>

\* main.go 142-153
extension(conversionType, contentType) ==
    CASE conversionType = Mp3 -> <<".mp3">>
      [] conversionType = Mp4 -> <<".mp4">>
      [] conversionType = Merged ->
            IF Contains(contentType, VideoWebm) THEN <<".webm">> ELSE <<".mp4">>
      [] OTHER -> <<>>

\* variant: the default ignores the conversion type
defaultMimeTypeAlwaysVideo(conversionType) == VideoMp4

\* main.go 158-165
defaultMimeType(conversionType) ==
    CASE conversionType = Mp3 -> AudioMpeg
      [] conversionType \in {Mp4, Merged} -> VideoMp4
      [] OTHER -> OctetStream

\* main.go 155-166
mimeTypeOf(conversionType, contentType) ==
    IF contentType = <<>> THEN defaultMimeType(conversionType) ELSE contentType

\* main.go 177-181: the headers "for file download"
setDownloadHeaders(w, filename, mimeType, contentLength) ==
    LET w1 == SetHeader(w, "Content-Disposition",
                        <<"attachment; filename=\"">> \o PathEscape(filename) \o <<"\"">>)
        w2 == SetHeader(w1, "Content-Type", mimeType)
    IN  IF contentLength # <<>> THEN SetHeader(w2, "Content-Length", contentLength)
        ELSE w2

\* main.go 134-243: compose the metadata and write the JSON response
writeMetadata(w, conversionType, veviozResponse, downloadResp, now) ==
    LET filename == filenameBase(veviozResponse.Title, now)
                        \o extension(conversionType, downloadResp.contentType)
        mimeType == mimeTypeOf(conversionType, downloadResp.contentType)
        contentLength == downloadResp.contentLength
        outputMetadata == ConversionResponse(filename, contentLength, mimeType,
                                             veviozResponse.URL)
        w1 == setDownloadHeaders(w, filename, mimeType, contentLength)
        w2 == SetHeader(w1, "Content-Type", ApplicationJSON)
    IN  Write(WriteHeader(w2, StatusOK), JSONBody(outputMetadata))

\* variant: the second GET goes to the source video url
downloadTargetVideoURL(videoURL, veviozResponse) == videoURL

\* the target of the second GET (main.go 119)
downloadTarget(videoURL, veviozResponse) == veviozResponse.URL

\* variant: the return after http.Error is missing
ProceedWithoutReturn(out, next) == next

\* after http.Error the handler returns; otherwise it goes on to `next`
Proceed(out, next) == IF out.failed THEN "done" ELSE next

Respond(w, out) == IF out.failed THEN HttpError(w, out.msg, out.code) ELSE w

\* ----------------------------------------------------------------- actions
\* one stage that only checks: write the error and return, or go on
Stage(r, at, out, next) ==
    /\ pc[r] = at
    /\ resp' = [resp EXCEPT ![r] = Respond(@, out)]
    /\ pc' = [pc EXCEPT ![r] = Proceed(out, next)]
    /\ UNCHANGED <<query, upAns, probeAns, calls>>

\* a request arrives at /convert and convertHandler is started for it
Arrive(r, Q) ==
    /\ pc[r] = "idle"
    /\ \E q \in Q : query' = [query EXCEPT ![r] = q]
    /\ pc' = [pc EXCEPT ![r] = "validate"]
    /\ UNCHANGED <<upAns, probeAns, calls, resp>>

Validate(r) ==
    Stage(r, "validate",
          validateParams(Get(query[r].url), Get(query[r].type)), "call_api")

\* main.go 83-84: client.Get of the API URL is issued
CallAPI(r) ==
    /\ pc[r] = "call_api"
    /\ calls' = [calls EXCEPT ![r] =
                    Append(@, [to |-> "api",
                               url |-> apiRequestURL(Get(query[r].type),
                                                     Get(query[r].url))])]
    /\ pc' = [pc EXCEPT ![r] = "await_api"]
    /\ UNCHANGED <<query, upAns, probeAns, resp>>

\* client.Get returns what the conversion service answered, or a network error
APIReturn(r, A) ==
    /\ pc[r] = "await_api"
    /\ \E a \in A : upAns' = [upAns EXCEPT ![r] = a]
    /\ pc' = [pc EXCEPT ![r] = "api_err"]
    /\ UNCHANGED <<query, probeAns, calls, resp>>

\* the client's timeout expires while the GET is pending: client.Get returns
\* the timeout error
APITimeout(r) ==
    /\ pc[r] = "await_api"
    /\ clientHasTimeout
    /\ upAns' = [upAns EXCEPT ![r] = TimeoutError]
    /\ pc' = [pc EXCEPT ![r] = "api_err"]
    /\ UNCHANGED <<query, probeAns, calls, resp>>

CheckAPIErr(r) == Stage(r, "api_err", checkAPIErr(upAns[r]), "api_status")

CheckAPIStatus(r) == Stage(r, "api_status", checkAPIStatus(upAns[r]), "api_decode")

DecodeAPI(r) == Stage(r, "api_decode", decodeAPI(upAns[r]), "api_logical")

CheckAPILogical(r) ==
    Stage(r, "api_logical", checkAPILogical(upAns[r].body), "call_download")

\* main.go 119: client.Get of the URL the conversion service returned
CallDownload(r) ==
    /\ pc[r] = "call_download"
    /\ calls' = [calls EXCEPT ![r] =
                    Append(@, [to |-> "download",
                               url |-> downloadTarget(Get(query[r].url),
                                                      upAns[r].body)])]
    /\ pc' = [pc EXCEPT ![r] = "await_download"]
    /\ UNCHANGED <<query, upAns, probeAns, resp>>

DownloadReturn(r, P) ==
    /\ pc[r] = "await_download"
    /\ \E a \in P : probeAns' = [probeAns EXCEPT ![r] = a]
    /\ pc' = [pc EXCEPT ![r] = "download_err"]
    /\ UNCHANGED <<query, upAns, calls, resp>>

DownloadTimeout(r) ==
    /\ pc[r] = "await_download"
    /\ clientHasTimeout
    /\ probeAns' = [probeAns EXCEPT ![r] = TimeoutError]
    /\ pc' = [pc EXCEPT ![r] = "download_err"]
    /\ UNCHANGED <<query, upAns, calls, resp>>

CheckDownloadErr(r) ==
    Stage(r, "download_err", checkDownloadErr(probeAns[r]), "download_status")

CheckDownloadStatus(r) ==
    Stage(r, "download_status", checkDownloadStatus(probeAns[r]), "compose")

\* main.go 134-245; time.Now().Unix() reads the clock
Compose(r) ==
    /\ pc[r] = "compose"
    /\ \E now \in Times :
          resp' = [resp EXCEPT ![r] =
                      writeMetadata(@, Get(query[r].type), upAns[r].body,
                                    probeAns[r], now)]
    /\ pc' = [pc EXCEPT ![r] = "done"]
    /\ UNCHANGED <<query, upAns, probeAns, calls>>

\* the steps convertHandler takes by itself for request r
HandlerStep(r) ==
    \/ Validate(r)
    \/ CallAPI(r)
    \/ CheckAPIErr(r)
    \/ CheckAPIStatus(r)
    \/ DecodeAPI(r)
    \/ CheckAPILogical(r)
    \/ CallDownload(r)
    \/ CheckDownloadErr(r)
    \/ CheckDownloadStatus(r)
    \/ Compose(r)

\* the expiry of the client's timeout on a pending GET of request r
Timeout(r) == APITimeout(r) \/ DownloadTimeout(r)

\* convertHandler for request r, its inputs drawn from Q, A and P
convertHandler(r, Q, A, P) ==
    \/ Arrive(r, Q)
    \/ HandlerStep(r)
    \/ APIReturn(r, A)
    \/ DownloadReturn(r, P)
    \/ Timeout(r)

Init ==
    /\ pc = [r \in Reqs |-> "idle"]
    /\ query = [r \in Reqs |-> NoQuery]
    /\ upAns = [r \in Reqs |-> NoAnswer]
    /\ probeAns = [r \in Reqs |-> NoAnswer]
    /\ calls = [r \in Reqs |-> <<>>]
    /\ resp = [r \in Reqs |-> NewResponseWriter]

\* one request, every input
Next == convertHandler(FirstReq, Queries, UpAnswers, ProbeAnswers)

Spec == Init /\ [][Next]_vars

\* a started handler keeps running and the client's timer fires; nothing
\* obliges a request to arrive or a remote server to answer
LiveSpec ==
    Spec /\ WF_vars(HandlerStep(FirstReq)) /\ WF_vars(Timeout(FirstReq))

\* NumReqs requests handled concurrently (net/http runs each handler in its
\* own goroutine), their inputs drawn from a few representative values
ConcQueries ==
    {[url |-> Param(SomeVideoURL), type |-> Param(t)] : t \in {Mp3, Merged, Webm}}
ConcUpAnswers ==
    {GetError(<<"connection refused">>)}
    \cup {[NoAnswer EXCEPT !.kind = "response", !.status = 200, !.decodable = TRUE,
                           !.body = VeviozAPIResponse(<<"ok">>, DownloadLocation, t, <<>>)] :
            t \in {<<>>, <<"S", "o">>}}
ConcProbeAnswers ==
    {[NoAnswer EXCEPT !.kind = "response", !.status = 200,
                      !.contentType = VideoWebm, !.contentLength = <<"1", "2", "3", "4">>],
     [NoAnswer EXCEPT !.kind = "response", !.status = 404]}

NextConc == \E r \in Reqs : convertHandler(r, ConcQueries, ConcUpAnswers, ConcProbeAnswers)

SpecConc == Init /\ [][NextConc]_vars

\* ------------------------------------------------------------ properties
\* the request has left validation
Validated(r) == pc[r] \notin {"idle", "validate"}
\* the handler has returned
Done(r) == pc[r] = "done"

AbsentOrEmpty(p) == ~p.present \/ p.val = <<>>
MissingParameter(q) == AbsentOrEmpty(q.url) \/ AbsentOrEmpty(q.type)
InvalidType(q) == ~MissingParameter(q) /\ q.type.val \notin {Mp3, Mp4, Merged}
ValidQuery(q) == ~MissingParameter(q) /\ ~InvalidType(q)

\* the conversion service answered 200 with a decodable body
Decoded(r) ==
    upAns[r].kind = "response" /\ upAns[r].status = 200 /\ upAns[r].decodable
UpstreamOK(r) ==
    Decoded(r) /\ upAns[r].body.Status = <<"ok">> /\ upAns[r].body.URL # <<>>
ProbeOK(r) == probeAns[r].kind = "response" /\ probeAns[r].status = 200

IsAPICall(c) == c.to = "api"
IsDownloadCall(c) == c.to = "download"
APICalls(r) == SelectSeq(calls[r], IsAPICall)
DownloadCalls(r) == SelectSeq(calls[r], IsDownloadCall)

\* the one response of a request that has one
OnlyBody(r) == resp[r].body[1]
Succeeded(r) ==
    /\ Done(r)
    /\ resp[r].statuses = <<200>>
    /\ Len(resp[r].body) = 1
    /\ OnlyBody(r).kind = "json"

\* C1: a request whose url or type is absent or empty, or whose type is not
\* mp3, mp4 or merged, is answered 400 with the missing-parameter message
\* (either parameter empty) or the invalid-type message, and no outbound GET
\* (API or download) is issued for it.
C1_InvalidRequestRejected ==
    \A r \in Reqs :
        (Validated(r) /\ ~ValidQuery(query[r])) =>
            /\ Done(r)
            /\ resp[r].statuses = <<400>>
            /\ resp[r].body =
                  <<TextBody(IF MissingParameter(query[r])
                             THEN <<"Missing 'url' or 'type' parameter">>
                             ELSE <<"Invalid 'type' parameter. Must be 'mp3', 'mp4', or 'merged'.">>)>>
            /\ calls[r] = <<>>

C1_Witness ==
    \E r \in Reqs :
        /\ Done(r)
        /\ query[r].url = Param(SomeVideoURL)
        /\ query[r].type = Param(Webm)
        /\ resp[r].statuses = <<400>>

\* C2: when the upstream call returned 200 with status "ok" and a non-empty
\* url and the download probe returned 200, the response is 200 with a JSON
\* object whose download_url is the upstream url, whose size is the probe's
\* Content-Length ("" when absent) and whose mime_type is the probe's
\* Content-Type when present, else audio/mpeg for mp3 and video/mp4 for mp4
\* and merged.
C2_SuccessMetadata ==
    \A r \in Reqs :
        (Done(r) /\ ValidQuery(query[r]) /\ UpstreamOK(r) /\ ProbeOK(r)) =>
            /\ Succeeded(r)
            /\ OnlyBody(r).obj.DownloadURL = Param(upAns[r].body.URL)
            /\ OnlyBody(r).obj.Size = probeAns[r].contentLength
            /\ OnlyBody(r).obj.MimeType =
                  IF probeAns[r].contentType # <<>> THEN probeAns[r].contentType
                  ELSE IF query[r].type.val = Mp3 THEN AudioMpeg
                  ELSE VideoMp4

C2_Witness ==
    \E r \in Reqs :
        /\ Succeeded(r)
        /\ query[r].type.val = Mp3
        /\ probeAns[r].contentType = <<>>
        /\ probeAns[r].contentLength = <<>>
        /\ OnlyBody(r).obj.MimeType = AudioMpeg

\* C3: when the upstream call returned 200 with a decodable body whose status
\* is not "ok" or whose url is empty, the response is 502, its message holds
\* upstream's error text when non-empty and the generic fallback otherwise,
\* and the download probe is never issued.
C3_LogicalFailure ==
    \A r \in Reqs :
        (Decoded(r) /\ ~UpstreamOK(r)) =>
            /\ DownloadCalls(r) = <<>>
            /\ pc[r] \in {"api_err", "api_status", "api_decode", "api_logical", "done"}
            /\ Done(r) =>
                  /\ resp[r].statuses = <<502>>
                  /\ Len(resp[r].body) = 1
                  /\ OnlyBody(r).kind = "text"
                  /\ Contains(OnlyBody(r).msg,
                              IF upAns[r].body.Error # <<>> THEN upAns[r].body.Error
                              ELSE <<"Unknown error from conversion service">>)

C3_Witness ==
    \E r \in Reqs :
        /\ Done(r)
        /\ Decoded(r)
        /\ upAns[r].body.Status = <<"ok">>
        /\ upAns[r].body.URL = <<>>
        /\ upAns[r].body.Error = <<>>
        /\ resp[r].statuses = <<502>>

\* the status the first failing stage gives, when the HTTP statuses in
\* `success` count as success for both outbound calls
FirstFailureStatus(r, success) ==
    IF upAns[r].kind = "error" THEN 502
    ELSE IF upAns[r].status \notin success THEN 502
    ELSE IF ~upAns[r].decodable THEN 500
    ELSE IF upAns[r].body.Status # <<"ok">> \/ upAns[r].body.URL = <<>> THEN 502
    ELSE IF probeAns[r].kind = "error" THEN 500
    ELSE IF probeAns[r].status \notin success THEN 500
    ELSE 200

\* C4 as stated: the status of the response is that of the first failing
\* stage, where an upstream or probe answer with any success status (2xx)
\* passes the status check and goes on to the next stage.
C4_AnySuccessStatusProceeds ==
    \A r \in Reqs :
        (Done(r) /\ ValidQuery(query[r])) =>
            resp[r].statuses = <<FirstFailureStatus(r, 200 .. 299)>>

\* C4 amended: the status of the response is that of the first failing
\* stage, where only an answer with status 200 passes the status check:
\* upstream unreachable or timed out 502, upstream status other than 200 502,
\* undecodable body 500, probe unreachable or status other than 200 500.
C4_FirstFailureDecides ==
    \A r \in Reqs :
        (Done(r) /\ ValidQuery(query[r])) =>
            resp[r].statuses = <<FirstFailureStatus(r, {200})>>

C4_Witness ==
    \E r \in Reqs :
        /\ Done(r)
        /\ UpstreamOK(r)
        /\ probeAns[r].kind = "response"
        /\ probeAns[r].status = 404
        /\ resp[r].statuses = <<500>>

\* C5: on success the filename is the base name followed by one extension:
\* the base is upstream's title when non-empty, else "converted_video_" and
\* the Unix time; the extension is .mp3 for mp3, .mp4 for mp4, and for merged
\* .webm when the probe's Content-Type contains video/webm, else .mp4.
C5_Filename ==
    \A r \in Reqs :
        Succeeded(r) =>
            LET ext == IF query[r].type.val = Mp3 THEN <<".mp3">>
                       ELSE IF query[r].type.val = Mp4 THEN <<".mp4">>
                       ELSE IF Contains(probeAns[r].contentType, VideoWebm)
                            THEN <<".webm">>
                       ELSE <<".mp4">>
                name == OnlyBody(r).obj.Filename
            IN  IF upAns[r].body.Title # <<>>
                THEN name = upAns[r].body.Title \o ext
                ELSE \E t \in Times : name = <<"converted_video_">> \o Itoa(t) \o ext

C5_Witness ==
    \E r \in Reqs :
        /\ Succeeded(r)
        /\ query[r].type.val = Merged
        /\ upAns[r].body.Title = <<>>
        /\ probeAns[r].contentType = VideoWebm \o <<";", "q">>
        /\ OnlyBody(r).obj.Filename =
              <<"converted_video_">> \o Itoa(MaxTime) \o <<".webm">>

\* C6: two requests with the same parameters whose outbound calls received
\* the same answers get the same status, and the same body when upstream's
\* title is non-empty (with an empty title the bodies differ at most in the
\* timestamp-derived filename), however they interleave with each other and
\* with other requests.
SameInputs(r1, r2) ==
    /\ query[r1] = query[r2]
    /\ upAns[r1] = upAns[r2]
    /\ probeAns[r1] = probeAns[r2]

C6_ResponseDependsOnOwnInputs ==
    \A r1, r2 \in Reqs :
        (Done(r1) /\ Done(r2) /\ SameInputs(r1, r2)) =>
            /\ resp[r1].statuses = resp[r2].statuses
            /\ Len(resp[r1].body) = Len(resp[r2].body)
            /\ \A i \in 1 .. Len(resp[r1].body) :
                  LET b1 == resp[r1].body[i]
                      b2 == resp[r2].body[i]
                  IN  IF upAns[r1].body.Title # <<>> \/ b1.kind # "json"
                      THEN b1 = b2
                      ELSE [b1 EXCEPT !.obj.Filename = <<>>]
                              = [b2 EXCEPT !.obj.Filename = <<>>]

C6_Witness ==
    \E r1, r2 \in Reqs :
        /\ r1 # r2
        /\ Succeeded(r1)
        /\ Succeeded(r2)
        /\ SameInputs(r1, r2)
        /\ upAns[r1].body.Title # <<>>
        /\ resp[r1].body = resp[r2].body

\* C7: at most one response is written per request, and once a stage has
\* written an error response the handler has returned: no later stage runs,
\* no further outbound call is made and nothing more is written.
C7_OneResponseFailFast ==
    /\ [](\A r \in Reqs :
            /\ Len(resp[r].statuses) <= 1
            /\ Len(resp[r].body) <= 1
            /\ resp[r].statuses # <<>> => Done(r))
    /\ [][\A r \in Reqs :
            resp[r].statuses # <<>> =>
                /\ resp'[r] = resp[r]
                /\ calls'[r] = calls[r]
                /\ pc'[r] = "done"]_vars

C7_Witness ==
    \E r \in Reqs :
        /\ Done(r)
        /\ upAns[r].kind = "response"
        /\ upAns[r].status = 404
        /\ resp[r].statuses = <<502>>
        /\ Len(calls[r]) = 1

\* C8: per request the API GET is issued at most once and the download GET at
\* most once; the download GET comes after the API GET, only when the API
\* answered 200 with a decodable body of status "ok" and a non-empty url, and
\* it targets exactly that url.
C8_OutboundCallsOrdered ==
    \A r \in Reqs :
        /\ Len(APICalls(r)) <= 1
        /\ Len(DownloadCalls(r)) <= 1
        /\ DownloadCalls(r) # <<>> =>
              /\ Len(calls[r]) = 2
              /\ calls[r][1].to = "api"
              /\ calls[r][2].to = "download"
              /\ UpstreamOK(r)
              /\ calls[r][2].url = upAns[r].body.URL

C8_Witness ==
    \E r \in Reqs :
        /\ Done(r)
        /\ Len(calls[r]) = 2
        /\ calls[r][2] = [to |-> "download", url |-> DownloadLocation]

\* C9: every request that has arrived eventually gets its response, however
\* long the remote servers stay silent; a timeout of the API GET ends the
\* request with the 502 cannot-connect error and a timeout of the download
\* GET ends it with the 500 cannot-download error.
C9_EveryRequestAnswered ==
    /\ \A r \in Reqs :
          (pc[r] = "validate") ~> (Done(r) /\ Len(resp[r].statuses) = 1)
    /\ [](\A r \in Reqs :
            (Done(r) /\ upAns[r] = TimeoutError) =>
                /\ resp[r].statuses = <<502>>
                /\ resp[r].body[1].msg[1] = "Failed to connect to conversion service: ")
    /\ [](\A r \in Reqs :
            (Done(r) /\ probeAns[r] = TimeoutError) =>
                /\ resp[r].statuses = <<500>>
                /\ resp[r].body[1].msg[1] = "Failed to download converted file: ")

C9_Witness ==
    \E r \in Reqs :
        /\ Done(r)
        /\ UpstreamOK(r)
        /\ probeAns[r] = TimeoutError
        /\ resp[r].statuses = <<500>>

\* C10: on success the only response headers the handler has set are
\* Content-Disposition (attachment with the percent-escaped filename) and
\* Content-Type, whose final value is application/json; no other header is
\* set, so the probe's Content-Length appears only in the JSON field size.
C10_SuccessHeaders ==
    \A r \in Reqs :
        Succeeded(r) =>
            /\ resp[r].header["Content-Disposition"] =
                  <<"attachment; filename=\"">>
                      \o PathEscape(OnlyBody(r).obj.Filename) \o <<"\"">>
            /\ resp[r].header["Content-Type"] = ApplicationJSON
            /\ \A h \in HeaderNames \ {"Content-Disposition", "Content-Type"} :
                  resp[r].header[h] = <<>>

====
